---- MODULE Spec2Model ----
(***************************************************************************)
(* Two watchlist dashboards of the repository, as one state machine:       *)
(*   "mimi"  - the watchlist-file dashboard  (src/unnamed/part_000)        *)
(*   "buddy" - the hard-coded-list dashboard (src/stock-buddy/src/App.tsx) *)
(* A behaviour is one browser session of one of the two components: its    *)
(* React state, its interval timer, and the quote requests in flight.      *)
(* An async fetchStockData call is two atomic steps: the part before the   *)
(* first await (start of a cycle) and the part after the awaits            *)
(* (completion of the cycle); nothing is written between the two awaits.   *)
(***************************************************************************)
EXTENDS Integers, Sequences, FiniteSets, TLC

\* ------------------------------------------------------------------ bounds
\* number of fetch cycles one session may start
MaxCycles == 3
\* longest multi-quote array the provider returns
MaxQuotes == 2

\* A nullable JS value is the empty set (null / undefined) or the singleton of the value
Null == {}
Some(v) == {v}
Val(o) == CHOOSE v \in o : TRUE

\* ------------------------------------------------------------ input domains
\* quoted prices, placed around the NVDA target 169 (below, at, within 5% above, beyond)
Prices == {160, 169, 170, 200}
\* quoted day change percent, around the alert threshold -5
ChangePercents == {-6, -5}

\* the quotes the provider may answer with: every price and change for NVDA
\* (the symbol with a target), one price for AVGO (no target in any
\* watchlist) and for ZZZ (in no watchlist)
Quotes ==
    [symbol : {"NVDA"}, price : Prices, changesPercentage : ChangePercents]
    \cup [symbol : {"AVGO"}, price : {200}, changesPercentage : ChangePercents]
    \cup [symbol : {"ZZZ"}, price : {170}, changesPercentage : ChangePercents]

\* quotes that multi-quote responses are built from: an alert and two
\* different quotes of the lowest tier
RankQuotes ==
    { [symbol |-> "AVGO", price |-> 200, changesPercentage |-> -6],
      [symbol |-> "AVGO", price |-> 200, changesPercentage |-> -5],
      [symbol |-> "NVDA", price |-> 200, changesPercentage |-> -5] }

SeqsUpTo(S, n) == UNION { [1..k -> S] : k \in 0..n }

\* what a quote request can end in: the fetch rejects, the provider answers
\* with a non-2xx status, the body is not an array of quotes, or it is an
\* array of quotes (possibly empty)
Responses ==
    { [type |-> t, quotes |-> <<>>] : t \in {"networkError", "httpError", "notArray"} }
    \cup { [type |-> "array", quotes |-> <<q>>] : q \in Quotes }
    \cup { [type |-> "array", quotes |-> qs] : qs \in SeqsUpTo(RankQuotes, MaxQuotes) }

\* contents of /watchlist.json (data.stocks) the watchlist-file dashboard may load
WatchlistDocs ==
    { << [symbol |-> "NVDA", targetEntry |-> Some(169)], [symbol |-> "AVGO", targetEntry |-> Null] >>,
      << [symbol |-> "NVDA", targetEntry |-> Some(-169)], [symbol |-> "AVGO", targetEntry |-> Some(0)] >>,
      << >> }

\* Andy's watchlist
WATCHLIST ==
    << [symbol |-> "NVDA", target |-> Some(169)],
       [symbol |-> "AMD",  target |-> Some(246)],
       [symbol |-> "IONQ", target |-> Some(36)],
       [symbol |-> "EOSE", target |-> Some(13)],
       [symbol |-> "KEYS", target |-> Some(216)],
       [symbol |-> "AVGO", target |-> Null],
       [symbol |-> "MSFT", target |-> Null],
       [symbol |-> "GOOG", target |-> Null],
       [symbol |-> "TSLA", target |-> Null],
       [symbol |-> "QLD",  target |-> Null] >>

\* representatives of Math.random() * 300 + 50 and (Math.random() - 0.5) * 10
MockPrices == {50}
MockChangePercents == {-5}

LoadErrorMsg == "cannot load watchlist"
FetchErrorMsg == "cannot fetch quotes"

\* -------------------------------------------------------------------- state
VARIABLES
    app,         \* which component this session runs: "mimi" or "buddy"
    mounted,     \* have the mount effects run
    watchlistReq,\* the /watchlist.json request: "none", "pending", "loaded", "failed"
    watchlist,   \* useState watchlist (mimi); unused by buddy
    interval,    \* is the setInterval timer armed
    stocks,      \* useState stocks
    loading,     \* useState loading
    lastUpdate,  \* useState lastUpdate: Null or a time
    error,       \* useState error (mimi): Null or a message
    inflight,    \* cycle numbers of the quote requests awaiting their response
    cycles,      \* number of fetch cycles started so far; a cycle's number is its start order
    now,         \* the clock read by new Date(): advances at every completion
    applied,     \* history: number of the cycle whose results the try block last stored (0: none)
    last         \* history: the latest completion, Null or [cycle, response, started],
                 \* started being the number of cycles started by then

vars == <<app, mounted, watchlistReq, watchlist, interval, stocks, loading,
          lastUpdate, error, inflight, cycles, now, applied, last>>

\* --------------------------------------------------------------- classifier
\* JS truthiness of a target: null, undefined and 0 are falsy
Truthy(target) == target # Null /\ target # Some(0)

\* ((price - target) / target) * 100 as the exact fraction num / den
DistancePercent(price, target) == [num |-> (price - target) * 100, den |-> target]

\* d <= k for a fraction d with non-zero denominator
FracLeq(d, k) ==
    IF d.den > 0 THEN d.num <= k * d.den ELSE d.num >= k * d.den

\* watchlist.find(w => w.symbol === symbol): the first match, or Null
RECURSIVE Find(_, _)
Find(list, symbol) ==
    IF list = <<>> THEN Null
    ELSE IF Head(list).symbol = symbol THEN Some(Head(list))
    ELSE Find(Tail(list), symbol)

\* MimiStatus with the alert rule firing at -5 as well
MimiStatusAlertAtThreshold(price, target, changesPercentage) ==
    LET byTarget ==
            IF Truthy(target)
            THEN IF price <= Val(target) THEN "buy"
                 ELSE IF FracLeq(DistancePercent(price, Val(target)), 5) THEN "near"
                 ELSE "watch"
            ELSE "watch"
    IN  IF changesPercentage <= -5 THEN "alert" ELSE byTarget

\* let status = 'watch'; if (target) {...}; if (quote.changesPercentage < -5) status = 'alert'
MimiStatus(price, target, changesPercentage) ==
    LET byTarget ==
            IF Truthy(target)
            THEN IF price <= Val(target) THEN "buy"
                 ELSE IF FracLeq(DistancePercent(price, Val(target)), 5) THEN "near"
                 ELSE "watch"
            ELSE "watch"
    IN  IF changesPercentage < -5 THEN "alert" ELSE byTarget

\* the body of the map callback of the watchlist-file dashboard, for a quote
\* that has a watchlist entry
MimiClassify(watchItem, quote) ==
    [ symbol          |-> watchItem.symbol,
      targetEntry     |-> watchItem.targetEntry,
      price           |-> quote.price,
      changePercent   |-> quote.changesPercentage,
      status          |-> MimiStatus(quote.price, watchItem.targetEntry, quote.changesPercentage),
      distancePercent |-> IF Truthy(watchItem.targetEntry)
                          THEN Some(DistancePercent(quote.price, Val(watchItem.targetEntry)))
                          ELSE Null ]

\* data.map(...).filter(item => item !== null)
RECURSIVE MimiResults(_, _)
MimiResults(list, quotes) ==
    IF quotes = <<>> THEN <<>>
    ELSE LET watchItem == Find(list, Head(quotes).symbol)
             rest == MimiResults(list, Tail(quotes))
         IN  IF watchItem = Null THEN rest
             ELSE <<MimiClassify(Val(watchItem), Head(quotes))>> \o rest

\* BuddyStatus with buy only strictly below the target
BuddyStatusBelowTargetOnly(price, target, changePercent) ==
    LET byTarget ==
            IF Truthy(target)
            THEN IF price < Val(target) THEN "buy"
                 ELSE IF price * 100 <= Val(target) * 105 THEN "watch"
                 ELSE "hold"
            ELSE "hold"
    IN  IF changePercent < -5 THEN "alert" ELSE byTarget

\* let status = 'hold'; if (target) {...}; if (quote.regularMarketChangePercent < -5) status = 'alert'
BuddyStatus(price, target, changePercent) ==
    LET byTarget ==
            IF Truthy(target)
            THEN IF price <= Val(target) THEN "buy"
                 ELSE IF price * 100 <= Val(target) * 105 THEN "watch"
                 ELSE "hold"
            ELSE "hold"
    IN  IF changePercent < -5 THEN "alert" ELSE byTarget

\* the body of the map callback of the hard-coded-list dashboard; watchItem
\* is Null (undefined) for a quote whose symbol is not in WATCHLIST
BuddyClassify(watchItem, quote) ==
    LET target == IF watchItem = Null THEN Null ELSE Val(watchItem).target
    IN  [ symbol        |-> quote.symbol,
          price         |-> quote.price,
          changePercent |-> quote.changesPercentage,
          target        |-> target,
          status        |-> BuddyStatus(quote.price, target, quote.changesPercentage) ]

BuddyResults(quotes) ==
    [ i \in DOMAIN quotes |-> BuddyClassify(Find(WATCHLIST, quotes[i].symbol), quotes[i]) ]

\* ------------------------------------------------------------------- ranker
\* const priority = { buy: 0, alert: 1, near: 2, watch: 3 }
MimiPriority == [buy |-> 0, alert |-> 1, near |-> 2, watch |-> 3]

\* const priority = { buy: 0, alert: 1, watch: 2, hold: 3 }
BuddyPriority == [buy |-> 0, alert |-> 1, watch |-> 2, hold |-> 3]

\* InsertSorted that puts x in front of the elements it compares equal to
RECURSIVE InsertSortedBeforeEqual(_, _, _)
InsertSortedBeforeEqual(x, sorted, priority) ==
    IF sorted = <<>> THEN <<x>>
    ELSE IF priority[x.status] - priority[Head(sorted).status] <= 0
         THEN <<x>> \o sorted
         ELSE <<Head(sorted)>> \o InsertSortedBeforeEqual(x, Tail(sorted), priority)

\* insert x behind every element of the sorted list that does not compare greater
RECURSIVE InsertSorted(_, _, _)
InsertSorted(x, sorted, priority) ==
    IF sorted = <<>> THEN <<x>>
    ELSE IF priority[x.status] - priority[Head(sorted).status] < 0
         THEN <<x>> \o sorted
         ELSE <<Head(sorted)>> \o InsertSorted(x, Tail(sorted), priority)

\* Array.prototype.sort with the comparator priority[a.status] - priority[b.status]:
\* a stable comparison sort (ECMAScript 2019), here by insertion from the left
RECURSIVE SortBy(_, _)
SortBy(results, priority) ==
    IF results = <<>> THEN <<>>
    ELSE InsertSorted(results[Len(results)],
                      SortBy(SubSeq(results, 1, Len(results) - 1), priority),
                      priority)

\* ------------------------------------------------------------ construction
\* the useState initial values, before any effect has run
Init ==
    /\ app \in {"mimi", "buddy"}
    /\ mounted = FALSE
    /\ watchlistReq = "none"
    /\ watchlist = <<>>
    /\ interval = FALSE
    /\ stocks = <<>>
    /\ loading = TRUE
    /\ lastUpdate = Null
    /\ error = Null
    /\ inflight = {}
    /\ cycles = 0
    /\ now = 0
    /\ applied = 0
    /\ last = Null

\* ------------------------------------------------- watchlist-file dashboard
\* MimiFetchStart without setLoading(true)
MimiFetchStartNoLoading(list) ==
    IF Len(list) = 0
    THEN UNCHANGED <<loading, error, inflight, cycles>>
    ELSE /\ UNCHANGED loading
         /\ error' = Null
         /\ inflight' = inflight \cup {cycles + 1}
         /\ cycles' = cycles + 1

\* fetchStockData up to its first await, run with the watchlist its closure holds
MimiFetchStart(list) ==
    IF Len(list) = 0
    THEN UNCHANGED <<loading, error, inflight, cycles>>
    ELSE /\ loading' = TRUE
         /\ error' = Null
         /\ inflight' = inflight \cup {cycles + 1}
         /\ cycles' = cycles + 1

\* MimiPollingEffect without the watchlist.length > 0 test
MimiPollingEffectUnguarded(list) ==
    /\ MimiFetchStart(list)
    /\ interval' = TRUE

\* the effect on [watchlist]: first fetch and setInterval, only for a non-empty watchlist
MimiPollingEffect(list) ==
    IF Len(list) > 0
    THEN /\ MimiFetchStart(list)
         /\ interval' = TRUE
    ELSE UNCHANGED <<loading, error, inflight, cycles, interval>>

\* mount: the load effect requests /watchlist.json, the polling effect sees watchlist = []
MimiMount ==
    /\ app = "mimi"
    /\ ~mounted
    /\ mounted' = TRUE
    /\ watchlistReq' = "pending"
    /\ MimiPollingEffect(watchlist)
    /\ UNCHANGED <<app, watchlist, stocks, lastUpdate, now, applied, last>>

\* .then(data => setWatchlist(data.stocks)), and the polling effect it re-runs
MimiWatchlistLoaded(doc) ==
    /\ app = "mimi"
    /\ watchlistReq = "pending"
    /\ watchlistReq' = "loaded"
    /\ watchlist' = doc
    /\ MimiPollingEffect(doc)
    /\ UNCHANGED <<app, mounted, stocks, lastUpdate, now, applied, last>>

\* .catch(err => setError(...)): the request or res.json() rejected
MimiWatchlistFailed ==
    /\ app = "mimi"
    /\ watchlistReq = "pending"
    /\ watchlistReq' = "failed"
    /\ error' = Some(LoadErrorMsg)
    /\ UNCHANGED <<app, mounted, watchlist, interval, stocks, loading, lastUpdate,
                   inflight, cycles, now, applied, last>>

\* setInterval(fetchStockData, 60000) fires
MimiTimerTick ==
    /\ app = "mimi"
    /\ interval
    /\ cycles < MaxCycles
    /\ MimiFetchStart(watchlist)
    /\ UNCHANGED <<app, mounted, watchlistReq, watchlist, interval, stocks, lastUpdate,
                   now, applied, last>>

\* the refresh button: onClick={fetchStockData} disabled={loading}
MimiRefresh ==
    /\ app = "mimi"
    /\ mounted
    /\ ~loading
    /\ cycles < MaxCycles
    /\ MimiFetchStart(watchlist)
    /\ UNCHANGED <<app, mounted, watchlistReq, watchlist, interval, stocks, lastUpdate,
                   now, applied, last>>

\* MimiAccepts without the data.length === 0 test
MimiAcceptsAnyArray(resp) ==
    /\ resp.type # "networkError"
    /\ resp.type # "httpError"
    /\ resp.type = "array"

\* does the try block reach setStocks: response.ok, an array, not empty
MimiAccepts(resp) ==
    /\ resp.type # "networkError"
    /\ resp.type # "httpError"
    /\ resp.type = "array"
    /\ Len(resp.quotes) # 0

\* fetchStockData after its awaits, for the request of cycle c answered by resp
MimiComplete(c, resp) ==
    /\ app = "mimi"
    /\ c \in inflight
    /\ inflight' = inflight \ {c}
    /\ now' = now + 1
    /\ last' = Some([cycle |-> c, response |-> resp, started |-> cycles])
    /\ IF MimiAccepts(resp)
       THEN /\ stocks' = SortBy(MimiResults(watchlist, resp.quotes), MimiPriority)
            /\ lastUpdate' = Some(now')
            /\ applied' = c
            /\ UNCHANGED error
       ELSE /\ error' = Some(FetchErrorMsg)
            /\ UNCHANGED <<stocks, lastUpdate, applied>>
    /\ loading' = FALSE
    /\ UNCHANGED <<app, mounted, watchlistReq, watchlist, interval, cycles>>

\* ------------------------------------------------ hard-coded-list dashboard
\* fetchStockData up to its first await
BuddyFetchStart ==
    /\ loading' = TRUE
    /\ inflight' = inflight \cup {cycles + 1}
    /\ cycles' = cycles + 1

\* mount: the effect on [] starts the first fetch and arms setInterval(fetchStockData, 30000)
BuddyMount ==
    /\ app = "buddy"
    /\ ~mounted
    /\ mounted' = TRUE
    /\ BuddyFetchStart
    /\ interval' = TRUE
    /\ UNCHANGED <<app, watchlistReq, watchlist, stocks, lastUpdate, error, now, applied, last>>

BuddyTimerTick ==
    /\ app = "buddy"
    /\ interval
    /\ cycles < MaxCycles
    /\ BuddyFetchStart
    /\ UNCHANGED <<app, mounted, watchlistReq, watchlist, interval, stocks, lastUpdate,
                   error, now, applied, last>>

\* the refresh button: onClick={fetchStockData}, never disabled
BuddyRefresh ==
    /\ app = "buddy"
    /\ mounted
    /\ cycles < MaxCycles
    /\ BuddyFetchStart
    /\ UNCHANGED <<app, mounted, watchlistReq, watchlist, interval, stocks, lastUpdate,
                   error, now, applied, last>>

\* does the try block reach setStocks: the fetch resolved, the body parsed and
\* data.quoteResponse.result is an array (response.ok is not looked at; an
\* error body has no quoteResponse.result)
BuddyAccepts(resp) == resp.type = "array"

\* the catch block's mock data: one 'hold' entry per WATCHLIST entry, random numbers
BuddyMock(prices, changePercents) ==
    [ i \in DOMAIN WATCHLIST |->
        [ symbol        |-> WATCHLIST[i].symbol,
          price         |-> prices[i],
          changePercent |-> changePercents[i],
          target        |-> WATCHLIST[i].target,
          status        |-> "hold" ] ]

\* fetchStockData after its awaits, for the request of cycle c answered by resp
BuddyComplete(c, resp) ==
    /\ app = "buddy"
    /\ c \in inflight
    /\ inflight' = inflight \ {c}
    /\ now' = now + 1
    /\ last' = Some([cycle |-> c, response |-> resp, started |-> cycles])
    /\ IF BuddyAccepts(resp)
       THEN /\ stocks' = SortBy(BuddyResults(resp.quotes), BuddyPriority)
            /\ lastUpdate' = Some(now')
            /\ applied' = c
       ELSE /\ \E prices \in [DOMAIN WATCHLIST -> MockPrices],
                  changePercents \in [DOMAIN WATCHLIST -> MockChangePercents] :
                    stocks' = BuddyMock(prices, changePercents)
            /\ UNCHANGED <<lastUpdate, applied>>
    /\ loading' = FALSE
    /\ UNCHANGED <<app, mounted, watchlistReq, watchlist, interval, error, cycles>>

\* ------------------------------------------------------------ specification
Next ==
    \/ MimiMount
    \/ \E doc \in WatchlistDocs : MimiWatchlistLoaded(doc)
    \/ MimiWatchlistFailed
    \/ MimiTimerTick
    \/ MimiRefresh
    \/ \E c \in inflight, resp \in Responses : MimiComplete(c, resp)
    \/ BuddyMount
    \/ BuddyTimerTick
    \/ BuddyRefresh
    \/ \E c \in inflight, resp \in Responses : BuddyComplete(c, resp)

Spec == Init /\ [][Next]_vars

TypeOK ==
    /\ app \in {"mimi", "buddy"}
    /\ mounted \in BOOLEAN
    /\ watchlistReq \in {"none", "pending", "loaded", "failed"}
    /\ interval \in BOOLEAN
    /\ loading \in BOOLEAN
    /\ inflight \subseteq 1..cycles
    /\ cycles \in 0..MaxCycles
    /\ applied \in 0..cycles

\* =========================================================== properties
\* this step is the completion handler of a fetch cycle
Completion == last' # last
\* the cycle it completes and the response it handles
DoneCycle == Val(last').cycle
DoneResponse == Val(last').response

\* a failed fetch in the words of the spec: network error, non-2xx status,
\* a body that is not an array, or an empty array
FetchFailed(resp) ==
    \/ resp.type \in {"networkError", "httpError", "notArray"}
    \/ resp.type = "array" /\ resp.quotes = <<>>

\* this step is a completion that stored the results of its response
SuccessfulCompletion ==
    /\ Completion
    /\ IF app = "mimi" THEN ~FetchFailed(DoneResponse) ELSE DoneResponse.type = "array"

\* the symbols of the watchlist of the running dashboard
WatchlistSymbols ==
    IF app = "mimi" THEN { watchlist[i].symbol : i \in DOMAIN watchlist }
    ELSE { WATCHLIST[i].symbol : i \in DOMAIN WATCHLIST }

\* the target a displayed entry carries
TargetOf(stock) == IF app = "mimi" THEN stock.targetEntry ELSE stock.target

\* the quote a displayed entry was made from
QuoteOf(stock) ==
    [symbol |-> stock.symbol, price |-> stock.price, changesPercentage |-> stock.changePercent]

\* the quotes of a response that the running dashboard keeps
KeptQuotes(quotes) ==
    LET Kept(q) == app = "buddy" \/ q.symbol \in WatchlistSymbols
    IN  SelectSeq(quotes, Kept)

\* ---- C1
\* C1: once the results of a later-started cycle have been stored, the
\* response of an earlier-started cycle never replaces them: a completion
\* that stores the results of a cycle started before the cycle on display
\* does not change the displayed stocks list.
C1_NoStaleOverwrite == [][applied' < applied => stocks' = stocks]_vars

\* ---- C2
\* C2: in the watchlist-file dashboard the completion of a failed cycle leaves
\* stocks and lastUpdate as they were, sets a non-null error and sets loading
\* to false.
C2_FailedCycleKeepsResults ==
    [][ (app = "mimi" /\ Completion /\ FetchFailed(DoneResponse))
        => /\ stocks' = stocks
           /\ lastUpdate' = lastUpdate
           /\ error' # Null
           /\ loading' = FALSE ]_vars

\* a failed cycle has completed while earlier results were on display
C2_Witness ==
    /\ app = "mimi"
    /\ last # Null
    /\ FetchFailed(Val(last).response)
    /\ stocks # <<>>
    /\ error # Null

\* ---- C3
\* C3: in the watchlist-file dashboard, right after the completion handler of
\* a successful cycle the error is null, stocks holds that cycle's results
\* and lastUpdate is set.
C3_SuccessClearsError ==
    [][ (app = "mimi" /\ SuccessfulCompletion)
        => /\ error' = Null
           /\ stocks' = SortBy(MimiResults(watchlist, DoneResponse.quotes), MimiPriority)
           /\ lastUpdate' # Null ]_vars

\* ---- C4
\* C4: in both dashboards every kept quote of a stored response is displayed,
\* and a displayed entry has status alert exactly when its change percent is
\* strictly below -5, whatever its price and target; -5 itself does not alert.
C4_AlertOverride ==
    [][ SuccessfulCompletion
        => LET kept == KeptQuotes(DoneResponse.quotes)
           IN  /\ \A k \in DOMAIN kept :
                     \E i \in DOMAIN stocks' : QuoteOf(stocks'[i]) = kept[k]
               /\ \A i \in DOMAIN stocks' :
                     stocks'[i].status = "alert" <=> stocks'[i].changePercent < -5 ]_vars

\* a quote at or below its target with a drop beyond 5% is displayed as alert
C4_Witness ==
    \E i \in DOMAIN stocks :
        /\ TargetOf(stocks[i]) # Null
        /\ Val(TargetOf(stocks[i])) > 0
        /\ stocks[i].price <= Val(TargetOf(stocks[i]))
        /\ stocks[i].changePercent < -5
        /\ stocks[i].status = "alert"

\* ---- C5
\* C5 as stated: an entry with target T > 0 and price <= T is classified buy.
C5_TargetBuy ==
    [][ SuccessfulCompletion
        => \A i \in DOMAIN stocks' :
             ( /\ TargetOf(stocks'[i]) # Null
               /\ Val(TargetOf(stocks'[i])) > 0
               /\ stocks'[i].price <= Val(TargetOf(stocks'[i])) )
             => stocks'[i].status = "buy" ]_vars

\* C5 amended: an entry with target T > 0 and price <= T is classified buy
\* unless its change percent is strictly below -5, and then it is alert.
C5_TargetBuyUnlessAlert ==
    [][ SuccessfulCompletion
        => \A i \in DOMAIN stocks' :
             ( /\ TargetOf(stocks'[i]) # Null
               /\ Val(TargetOf(stocks'[i])) > 0
               /\ stocks'[i].price <= Val(TargetOf(stocks'[i])) )
             => stocks'[i].status =
                    IF stocks'[i].changePercent < -5 THEN "alert" ELSE "buy" ]_vars

\* a quote exactly at its target, without a drop beyond 5%, is displayed as buy
C5_Witness ==
    /\ last # Null
    /\ Val(last).response.type = "array"
    /\ \E i \in DOMAIN stocks :
        /\ TargetOf(stocks[i]) # Null
        /\ Val(TargetOf(stocks[i])) > 0
        /\ stocks[i].price = Val(TargetOf(stocks[i]))
        /\ stocks[i].changePercent = -5
        /\ stocks[i].status = "buy"

\* ---- C6
\* the displayed entries with one status, as quotes in display order
ShownWithStatus(list, status) ==
    LET Has(stock) == stock.status = status
        sel == SelectSeq(list, Has)
    IN  [i \in DOMAIN sel |-> QuoteOf(sel[i])]

\* the quotes of kept that are displayed with one status, in the order of kept
QuotesWithStatus(list, kept, status) ==
    LET Has(q) == \E i \in DOMAIN list : QuoteOf(list[i]) = q /\ list[i].status = status
    IN  SelectSeq(kept, Has)

\* the priority the spec gives a status: buy 0 < alert 1 < near/watch 2 < default 3
SpecPriority(status) ==
    IF status = "buy" THEN 0
    ELSE IF status = "alert" THEN 1
    ELSE IF status = (IF app = "mimi" THEN "near" ELSE "watch") THEN 2
    ELSE 3

C7_OnlyWatchlistSymbols ==
    \A i \in DOMAIN stocks : stocks[i].symbol \in WatchlistSymbols

\* ---- C8
\* a loaded watchlist has an entry with a target of zero or below
HasInvalidTarget(list) ==
    \E i \in DOMAIN list :
        list[i].targetEntry # Null /\ Val(list[i].targetEntry) <= 0

\* C8: in the watchlist-file dashboard a loaded watchlist with a target <= 0
\* is rejected at load time: the error is set, no quote fetch is pending and
\* no displayed entry was classified against a target <= 0.
C8_InvalidTargetRejected ==
    (app = "mimi" /\ watchlistReq = "loaded" /\ HasInvalidTarget(watchlist))
    => /\ error # Null
       /\ inflight = {}
       /\ \A i \in DOMAIN stocks :
             stocks[i].targetEntry = Null \/ Val(stocks[i].targetEntry) > 0

\* ---- C9
\* C9: in the watchlist-file dashboard, once loading the watchlist document
\* has failed the load error is set, no fetch cycle was or is started, the
\* timer is not armed, and loading, stocks and lastUpdate keep their initial
\* values.
C9_LoadFailureBlocksPolling ==
    (app = "mimi" /\ watchlistReq = "failed")
    => /\ error = Some(LoadErrorMsg)
       /\ cycles = 0
       /\ inflight = {}
       /\ ~interval
       /\ loading = TRUE
       /\ stocks = <<>>
       /\ lastUpdate = Null

\* the watchlist request has failed
C9_Witness ==
    /\ app = "mimi"
    /\ mounted
    /\ watchlistReq = "failed"
    /\ watchlist = <<>>

\* ---- C10
\* C10 as stated: while a fetch is in flight, loading is true.
C10_InflightImpliesLoading == inflight # {} => loading

\* C10 amended: loading is true exactly when no cycle has completed since
\* the most recently started cycle began; so a fetch in flight implies
\* loading only until the next completion of any cycle.
C10_LoadingUntilNextCompletion ==
    loading <=> (last = Null \/ Val(last).started < cycles)

\* in the watchlist-file dashboard the refresh button is enabled while a
\* fetch is still in flight
C10_Witness ==
    /\ app = "mimi"
    /\ inflight # {}
    /\ ~loading
    /\ cycles < MaxCycles

====
